---- MODULE Spec2Model ----
(***************************************************************************)
(* A model of content-scrape.js: the command line is read, the page URLs   *)
(* are resolved from a sitemap (recursively) or from a list file, each     *)
(* page is fetched and extracted under a p-limit concurrency limit, and    *)
(* the rows are re-ordered and written once to a CSV file.                 *)
(*                                                                         *)
(* Strings are tokens: a conversion on text (trim, cleanText, URL          *)
(* resolution) is a table over the tokens the model uses.  A file is the   *)
(* sequence of its lines, a sitemap document is its root element and the   *)
(* <loc> texts of its entries, a page is the elements the selectors of     *)
(* extractPageData look at.                                                *)
(***************************************************************************)
EXTENDS Naturals, Sequences, FiniteSets

VARIABLES
    SITEMAP_URL,     \* --sitemap argument, or NULL
    URLS_FILE,       \* --urls argument, or NULL
    CONCURRENCY,     \* Number(--concurrency || 5)
    fileLines,       \* environment: the lines of the file URLS_FILE names
    web,             \* environment: the document each sitemap URL serves
    pc,              \* where main() is
    stack,           \* getUrlsFromSitemap: the suspended sitemapindex calls
    fetching,        \* getUrlsFromSitemap: the sitemap whose GET is awaited
    urls,            \* main: urls
    rows,            \* main: rows, in completion order
    queue,           \* p-limit: tasks (indices into urls) not yet started
    active,          \* p-limit: tasks started and not yet settled
    orderedRows,     \* main: the rows handed to csvWriter.writeRecords
    written,         \* the CSV file's data lines (one tuple of cells each)
    writeCount,      \* calls of csvWriter.writeRecords
    exitCode,        \* process exit status
    topError,        \* message caught by main's catch, or ""
    failedAt,        \* the sitemap whose processing threw, or ""
    sitemapFetches,  \* GET requests issued for sitemaps
    pageFetches,     \* GET requests issued for each page URL
    html,            \* extractPageData: argument html
    pageUrl,         \* extractPageData: argument pageUrl
    data             \* extractPageData: the record returned

vars == <<SITEMAP_URL, URLS_FILE, CONCURRENCY, fileLines, web, pc, stack,
          fetching, urls, rows, queue, active, orderedRows, written,
          writeCount, exitCode, topError, failedAt, sitemapFetches,
          pageFetches, html, pageUrl, data>>

-----------------------------------------------------------------------------
(* Bounds of the model *)

MaxLines == 3        \* lines of the list file
MaxEntries == 2      \* entries of a sitemap document (SpecResolve)
MaxFetches == 7      \* sitemap GETs followed before the model stops
MaxCandidates == 4   \* tile candidates of a page (SpecExtract)

(* Program constants *)

DefaultConcurrency == 5
TileSlots == 3

BoundedSeq(S, n) == UNION {[1..k -> S] : k \in 0..n}

-----------------------------------------------------------------------------
(* Tokens *)

NULL == "<null>"

UrlA == "https://site.com/a"
UrlB == "https://site.com/b"
UrlC == "https://site.com/c"
PageUrls == {UrlA, UrlB, UrlC}

PaddedA == "  https://site.com/a  "
BlankLine == "   "
CommentLine == "# staging pages"
LineTokens == PageUrls \cup {PaddedA, BlankLine, CommentLine}

Root == "https://site.com/sitemap.xml"
Sitemap2 == "https://site.com/sitemap-2.xml"
Sitemap3 == "https://site.com/sitemap-3.xml"
Sitemaps == {Root, Sitemap2, Sitemap3}

ErrNoSource == "Provide --sitemap <url> or --urls <file>."
ErrUnknownFormat == "Unknown sitemap format (expected urlset or sitemapindex)."
ErrSitemapGet == "Request failed with status code 404"
ErrPLimit == "Expected concurrency to be a number from 1 and up"
ErrTimeout == "timeout of 20000ms exceeded"
ErrStatus == "Request failed with status code 500"
ErrExtract == "Cannot create property prev on number 0"

-----------------------------------------------------------------------------
(* Helpers *)

\* String.prototype.trim on the line tokens.
Trim(l) ==
    CASE l = PaddedA -> UrlA
      [] l = BlankLine -> ""
      [] OTHER -> l

StartsWithHash(l) == l = CommentLine

\* cleanText: whitespace runs collapse to one space, the ends are trimmed.
cleanText(s) ==
    CASE s = "" -> ""
      [] s = "  " -> ""
      [] s = " One " -> "One"
      [] s = "Read  more" -> "Read more"
      [] OTHER -> s

\* new URL(maybeRelative, pageUrl).toString(), or the value as it is when
\* the URL constructor throws.
absolutizeUrl(maybeRelative, page) ==
    IF maybeRelative = "" THEN ""
    ELSE CASE maybeRelative = "/r" /\ page \in PageUrls -> "https://site.com/r"
           [] maybeRelative = "/x.png" /\ page \in PageUrls -> "https://site.com/x.png"
           [] maybeRelative = "/img/banner.jpg" /\ page \in PageUrls
                -> "https://site.com/img/banner.jpg"
           [] maybeRelative = "/v" /\ page \in PageUrls -> "https://site.com/v"
           [] OTHER -> maybeRelative

\* style.match(/background-image\s*:\s*url\((['"]?)(.*?)\1\)/i), group 2.
BackgroundImage(style) ==
    CASE style = "background-image:url('/img/banner.jpg')" -> "/img/banner.jpg"
      [] OTHER -> ""

\* a || b on strings
Or(a, b) == IF a # "" THEN a ELSE b

\* $(...).filter(text non-empty).first(): the first anchor with visible text.
FirstWithText(links) ==
    LET hit == {i \in 1..Len(links) : cleanText(links[i].text) # ""}
    IN  IF hit = {} THEN [text |-> "", href |-> ""]
        ELSE links[CHOOSE i \in hit : \A j \in hit : i <= j]

-----------------------------------------------------------------------------
(* extractPageData *)

\* A page, as the selectors see it.  The banner, video and tile fields are
\* those of the first div.banner, div.article-video and div.related-articles;
\* a wrapper the page does not have gives "" and <<>>.
\*   tileItems     the wrapper's descendants matching
\*                 .tile, .card, article, li, .related-article
\*   tileChildren  the wrapper's direct children
\* A tile element is [h, p, links]: the text of its first h1..h4, of its
\* first p, and its anchors [text, href] in document order.

EmptyTile == [heading |-> "", description |-> "", linkTitle |-> "", linkUrl |-> ""]

\* lines 172-179: the four fields of one candidate element.
TileFields(el, page) ==
    LET link == FirstWithText(el.links)
    IN  [heading |-> cleanText(el.h),
         description |-> cleanText(el.p),
         linkTitle |-> cleanText(link.text),
         linkUrl |-> absolutizeUrl(link.href, page)]

\* KeepTile without the test of line 182.
KeepTile_Always(t) == TRUE

\* line 182: the test that keeps a candidate.
KeepTile(t) ==
    t.heading # "" \/ t.description # "" \/ t.linkTitle # "" \/ t.linkUrl # ""

\* line 171: the each() callback returns at once when three tiles are kept.
TilesFull(tiles) == Len(tiles) >= TileSlots

\* lines 163-167: the candidates, with the fallback to the direct children.
TileItems(h) == IF Len(h.tileItems) = 0 THEN h.tileChildren ELSE h.tileItems

\* lines 169-185: the each() loop over the candidates.
CollectTiles(items, page) ==
    LET tiles[i \in 0..Len(items)] ==
            IF i = 0 THEN <<>>
            ELSE LET t == TileFields(items[i], page)
                 IN  IF TilesFull(tiles[i-1]) THEN tiles[i-1]
                     ELSE IF KeepTile(t) THEN Append(tiles[i-1], t)
                     ELSE tiles[i-1]
    IN  tiles[Len(items)]

\* lines 188-190: while (tiles.length < 3) push an empty tile.
RECURSIVE PadTiles(_)
PadTiles(tiles) ==
    IF Len(tiles) < TileSlots THEN PadTiles(Append(tiles, EmptyTile)) ELSE tiles

extractPageData(h, page) ==
    LET bannerImage ==
            IF h.bannerImg # "" THEN absolutizeUrl(h.bannerImg, page)
            ELSE absolutizeUrl(BackgroundImage(h.bannerStyle), page)
        bannerBtn == FirstWithText(h.bannerBtns)
        tiles == PadTiles(CollectTiles(TileItems(h), page))
    IN  [url |-> page,
         banner_image |-> bannerImage,
         banner_title |-> Or(cleanText(h.bannerH1), cleanText(h.bannerH2)),
         banner_description |-> cleanText(h.bannerP),
         banner_button_text |-> cleanText(bannerBtn.text),
         banner_button_link |-> absolutizeUrl(bannerBtn.href, page),
         main_description |-> cleanText(h.mainDescription),
         video_heading |-> cleanText(h.videoHeading),
         video_embed_url |->
             absolutizeUrl(Or(h.videoIframe, Or(h.videoDataSrc, h.videoA)), page),
         tile1_heading |-> tiles[1].heading,
         tile1_description |-> tiles[1].description,
         tile1_link_title |-> tiles[1].linkTitle,
         tile1_link_url |-> tiles[1].linkUrl,
         tile2_heading |-> tiles[2].heading,
         tile2_description |-> tiles[2].description,
         tile2_link_title |-> tiles[2].linkTitle,
         tile2_link_url |-> tiles[2].linkUrl,
         tile3_heading |-> tiles[3].heading,
         tile3_description |-> tiles[3].description,
         tile3_link_title |-> tiles[3].linkTitle,
         tile3_link_url |-> tiles[3].linkUrl]

\* cheerio.load throws on a response body that is no markup (axios hands a
\* parsed JSON scalar on); the page token NotMarkup stands for such a body.
NotMarkup == "0"

\* lines 243-271: the ids of the CSV columns, in order.
headers ==
    <<"url", "banner_image", "banner_title", "banner_description",
      "banner_button_text", "banner_button_link", "main_description",
      "video_heading", "video_embed_url",
      "tile1_heading", "tile1_description", "tile1_link_title", "tile1_link_url",
      "tile2_heading", "tile2_description", "tile2_link_title", "tile2_link_url",
      "tile3_heading", "tile3_description", "tile3_link_title", "tile3_link_url">>

\* csvWriter.writeRecords: one line per record, one cell per header id, the
\* cell of an id the record lacks being empty.
writeRecords(records) ==
    [k \in 1..Len(records) |->
        [i \in 1..Len(headers) |->
            IF headers[i] \in DOMAIN records[k] THEN records[k][headers[i]] ELSE ""]]

(* Pages and tile elements the model draws from *)

NoTile == [h |-> "", p |-> "", links |-> <<>>]
BlankTile == [h |-> "  ", p |-> "", links |-> <<[text |-> "", href |-> "/x.png"]>>]
HeadingTile == [h |-> " One ", p |-> "", links |-> <<>>]
TextTile == [h |-> "", p |-> "Two", links |-> <<>>]
LinkTile ==
    [h |-> "", p |-> "",
     links |-> <<[text |-> "", href |-> "/x.png"], [text |-> "Read  more", href |-> "/r"]>>]
TitleTile == [h |-> "", p |-> "", links |-> <<[text |-> "More", href |-> ""]>>]
FullTile ==
    [h |-> "Four", p |-> "Text", links |-> <<[text |-> "Go", href |-> "https://other.org/p"]>>]
TileElements ==
    {NoTile, BlankTile, HeadingTile, TextTile, LinkTile, TitleTile, FullTile}

BarePage ==
    [bannerImg |-> "", bannerStyle |-> "", bannerH1 |-> "", bannerH2 |-> "",
     bannerP |-> "", bannerBtns |-> <<>>, mainDescription |-> "",
     videoHeading |-> "", videoIframe |-> "", videoDataSrc |-> "", videoA |-> "",
     tileItems |-> <<>>, tileChildren |-> <<>>]

ArticlePage ==
    [bannerImg |-> "", bannerStyle |-> "background-image:url('/img/banner.jpg')",
     bannerH1 |-> "", bannerH2 |-> " One ", bannerP |-> "Text",
     bannerBtns |-> <<[text |-> "", href |-> "/x.png"], [text |-> "Go", href |-> "/r"]>>,
     mainDescription |-> "Read  more",
     videoHeading |-> "Four", videoIframe |-> "", videoDataSrc |-> "/v", videoA |-> "/r",
     tileItems |-> <<BlankTile, HeadingTile, LinkTile, NoTile, FullTile, TextTile>>,
     tileChildren |-> <<TextTile>>]

ImagePage ==
    [BarePage EXCEPT !.bannerImg = "/x.png",
                     !.bannerStyle = "background-image:url('/img/banner.jpg')",
                     !.bannerH1 = "Four", !.bannerH2 = "Two",
                     !.videoIframe = "https://other.org/p", !.videoA = "/r",
                     !.tileChildren = <<TitleTile, NoTile>>]

-----------------------------------------------------------------------------
(* URL sources *)

\* .filter(Boolean) on an array of strings
FilterBoolean(s) == SelectSeq(s, LAMBDA x : x # "")

\* getUrlsFromFile after the split into lines: trim, drop blank and # lines.
getUrlsFromFile(lines) ==
    SelectSeq([i \in 1..Len(lines) |-> Trim(lines[i])],
              LAMBDA l : l # "" /\ ~StartsWithHash(l))

\* Array.from(new Set(s)): the first occurrence of each value, in order.
ArrayFromSet(s) ==
    LET seen[i \in 0..Len(s)] ==
            IF i = 0 THEN <<>>
            ELSE IF \E j \in 1..(i-1) : s[j] = s[i] THEN seen[i-1]
            ELSE Append(seen[i-1], s[i])
    IN  seen[Len(s)]

\* Dedupe that keeps every occurrence.
Dedupe_KeepAll(s) == FilterBoolean(s)

\* line 239
Dedupe(s) == FilterBoolean(ArrayFromSet(s))

\* A sitemap document after xml2js: its root element and the <loc> text of
\* each <url> or <sitemap> child ("" for a child without one).  A GET that
\* fails is the document Unreachable.
Urlset(e) == [root |-> "urlset", entries |-> e]
SitemapIndex(e) == [root |-> "sitemapindex", entries |-> e]
OtherDocument == [root |-> "rss", entries |-> <<>>]
Unreachable == [root |-> "unreachable", entries |-> <<>>]

\* line 71: parsed.urlset?.url  (xml2js gives an element without children
\* no `url` property)
HasUrlsetUrl(doc) == doc.root = "urlset" /\ Len(doc.entries) > 0

\* line 77: parsed.sitemapindex?.sitemap
HasSitemapindexSitemap(doc) == doc.root = "sitemapindex" /\ Len(doc.entries) > 0

\* lines 72-74 and 78-80: .map(x => x.loc?.[0]).filter(Boolean)
Locs(doc) == FilterBoolean(doc.entries)

\* PushAll that puts the child's URLs first.
PushAll_Front(all, sub) == sub \o all

\* line 85: all.push(...sub)
PushAll(all, sub) == all \o sub

\* A child call returned `sub`: the calls suspended at line 84 go on, down
\* to the next GET or to the return into main.
RECURSIVE Return(_, _)
Return(stk, sub) ==
    IF stk = <<>>
    THEN [stack |-> <<>>, fetching |-> "", result |-> sub, returned |-> TRUE]
    ELSE LET f == stk[Len(stk)]
             all == PushAll(f.all, sub)
         IN  IF f.rest = <<>>
             THEN Return(SubSeq(stk, 1, Len(stk) - 1), all)
             ELSE [stack |-> [stk EXCEPT ![Len(stk)] =
                                 [f EXCEPT !.all = all, !.rest = Tail(f.rest)]],
                   fetching |-> Head(f.rest), result |-> <<>>, returned |-> FALSE]

-----------------------------------------------------------------------------
(* p-limit and the re-ordering *)

\* pLimit(concurrency) throws unless concurrency is an integer from 1 up.
ValidConcurrency(c) == c >= 1

\* Admitted with no limit.
Admitted_All(n, c) == n

\* limit(...) on each of n tasks: the first c start, the others wait.
Admitted(n, c) == IF n < c THEN n ELSE c

\* AllSettled that waits for the first task only.
AllSettled_First(q, a) == Len(rows) >= 1 \/ Len(urls) = 0

\* line 297: Promise.all(tasks) resolves when every task has settled.
AllSettled(q, a) == q = <<>> /\ a = {}

\* line 300: new Map(rows.map(r => [r.url, r])).get(u); a later row of the
\* same url replaces an earlier one.
HasRow(rs, u) == \E k \in 1..Len(rs) : rs[k].url = u
RowByUrl(rs, u) ==
    LET hit == {k \in 1..Len(rs) : rs[k].url = u}
    IN  rs[CHOOSE k \in hit : \A j \in hit : j <= k]

\* OrderedRows that keeps the completion order.
OrderedRows_Completion(us, rs) == rs

\* line 301
OrderedRows(us, rs) ==
    [i \in 1..Len(us) |->
        IF HasRow(rs, us[i]) THEN RowByUrl(rs, us[i]) ELSE [url |-> us[i]]]

\* lines 289-293 without the catch: the error leaves the task.
TaskCatches_Not == FALSE

\* lines 284-293: the task's try/catch takes every error of the fetch and
\* of the extraction.
TaskCatches == TRUE

-----------------------------------------------------------------------------
(* The run *)

Concurrencies == {0, 1, 2, DefaultConcurrency}

NoData == [url |-> ""]

RunDocuments ==
    {Urlset(<<UrlA, UrlB>>), Urlset(<<UrlB, "", UrlA, UrlB>>), Urlset(<<>>),
     SitemapIndex(<<Sitemap2, "", Sitemap3>>), SitemapIndex(<<Sitemap3>>),
     OtherDocument, Unreachable}

EmptyWeb == [s \in Sitemaps |-> Unreachable]

Idle ==
    /\ stack = <<>>
    /\ fetching = ""
    /\ urls = <<>>
    /\ rows = <<>>
    /\ queue = <<>>
    /\ active = {}
    /\ orderedRows = <<>>
    /\ written = <<>>
    /\ writeCount = 0
    /\ exitCode = 0
    /\ topError = ""
    /\ failedAt = ""
    /\ sitemapFetches = 0
    /\ pageFetches = [u \in PageUrls |-> 0]
    /\ data = NoData

AtStart ==
    /\ Idle
    /\ pc = "start"
    /\ html = BarePage
    /\ pageUrl = UrlA

Init ==
    /\ AtStart
    /\ CONCURRENCY \in Concurrencies
    /\ \/ /\ SITEMAP_URL = NULL
          /\ URLS_FILE = NULL
          /\ fileLines = <<>>
          /\ web = EmptyWeb
       \/ /\ SITEMAP_URL = NULL
          /\ URLS_FILE = "urls.txt"
          /\ fileLines \in BoundedSeq(LineTokens, MaxLines)
          /\ web = EmptyWeb
       \/ /\ SITEMAP_URL = Root
          /\ URLS_FILE \in {NULL, "urls.txt"}
          /\ fileLines = <<>>
          /\ web \in [Sitemaps -> RunDocuments]

env == <<SITEMAP_URL, URLS_FILE, CONCURRENCY, fileLines, web>>
extraction == <<html, pageUrl, data>>
tasks == <<rows, queue, active, pageFetches>>
output == <<orderedRows, written, writeCount>>

\* The catch without process.exit(1): the error is logged and the process
\* ends with status 0.
Exit_Logged(message, at) ==
    /\ topError' = message
    /\ failedAt' = at
    /\ exitCode' = exitCode
    /\ pc' = "exited"
    /\ stack' = <<>>
    /\ fetching' = ""

\* lines 305-308: main's catch
Exit(message, at) ==
    /\ topError' = message
    /\ failedAt' = at
    /\ exitCode' = 1
    /\ pc' = "exited"
    /\ stack' = <<>>
    /\ fetching' = ""

\* line 235
NoSource ==
    /\ pc = "start"
    /\ SITEMAP_URL = NULL
    /\ URLS_FILE = NULL
    /\ Exit(ErrNoSource, "")
    /\ UNCHANGED <<env, extraction, tasks, output, urls, sitemapFetches>>

\* lines 232-233 and 239
ReadFile ==
    /\ pc = "start"
    /\ SITEMAP_URL = NULL
    /\ URLS_FILE # NULL
    /\ urls' = Dedupe(getUrlsFromFile(fileLines))
    /\ pc' = "resolved"
    /\ UNCHANGED <<env, extraction, tasks, output, stack, fetching, exitCode,
                   topError, failedAt, sitemapFetches>>

\* line 231: the call, up to the GET of line 67
StartSitemap ==
    /\ pc = "start"
    /\ SITEMAP_URL # NULL
    /\ fetching' = SITEMAP_URL
    /\ sitemapFetches' = sitemapFetches + 1
    /\ pc' = "resolving"
    /\ UNCHANGED <<env, extraction, tasks, output, stack, urls, exitCode,
                   topError, failedAt>>

\* The calls go on after a return: into main (line 239) or to the next GET.
Continue(r) ==
    IF r.returned
    THEN /\ urls' = Dedupe(r.result)
         /\ pc' = "resolved"
         /\ stack' = <<>>
         /\ fetching' = ""
         /\ UNCHANGED sitemapFetches
    ELSE /\ sitemapFetches < MaxFetches
         /\ stack' = r.stack
         /\ fetching' = r.fetching
         /\ sitemapFetches' = sitemapFetches + 1
         /\ UNCHANGED <<urls, pc>>

\* line 67: the GET fails
SitemapGetFails ==
    /\ pc = "resolving"
    /\ fetching \notin DOMAIN web \/ web[fetching] = Unreachable
    /\ Exit(ErrSitemapGet, fetching)
    /\ UNCHANGED <<env, extraction, tasks, output, urls, sitemapFetches>>

\* lines 71-75
SitemapUrlset ==
    /\ pc = "resolving"
    /\ fetching \in DOMAIN web
    /\ HasUrlsetUrl(web[fetching])
    /\ Continue(Return(stack, Locs(web[fetching])))
    /\ UNCHANGED <<env, extraction, tasks, output, exitCode, topError, failedAt>>

\* lines 77-88
SitemapSitemapindex ==
    /\ pc = "resolving"
    /\ fetching \in DOMAIN web
    /\ ~HasUrlsetUrl(web[fetching])
    /\ HasSitemapindexSitemap(web[fetching])
    /\ LET sitemapLocs == Locs(web[fetching])
       IN  Continue(Return(Append(stack, [sm |-> fetching, rest |-> sitemapLocs,
                                          all |-> <<>>]), <<>>))
    /\ UNCHANGED <<env, extraction, tasks, output, exitCode, topError, failedAt>>

\* line 90
SitemapUnknown ==
    /\ pc = "resolving"
    /\ fetching \in DOMAIN web
    /\ web[fetching] # Unreachable
    /\ ~HasUrlsetUrl(web[fetching])
    /\ ~HasSitemapindexSitemap(web[fetching])
    /\ Exit(ErrUnknownFormat, fetching)
    /\ UNCHANGED <<env, extraction, tasks, output, urls, sitemapFetches>>

\* line 279: pLimit(CONCURRENCY) throws
PLimitThrows ==
    /\ pc = "resolved"
    /\ ~ValidConcurrency(CONCURRENCY)
    /\ Exit(ErrPLimit, "")
    /\ UNCHANGED <<env, extraction, tasks, output, urls, sitemapFetches>>

\* lines 241-295, up to the await of line 297: every task is handed to
\* limit(); the admitted ones start and issue their GET (line 285).
Dispatch ==
    /\ pc = "resolved"
    /\ ValidConcurrency(CONCURRENCY)
    /\ LET n == Len(urls)
           k == Admitted(n, CONCURRENCY)
       IN  /\ active' = 1..k
           /\ queue' = [i \in 1..(n - k) |-> k + i]
           /\ pageFetches' =
                [u \in PageUrls |->
                    pageFetches[u] + Cardinality({i \in 1..k : urls[i] = u})]
    /\ pc' = "awaiting"
    /\ UNCHANGED <<env, extraction, output, stack, fetching, urls, rows,
                   exitCode, topError, failedAt, sitemapFetches>>

\* p-limit's next(): the task that settled leaves, the head of the queue
\* starts and issues its GET.
PLimitNext(i) ==
    IF queue = <<>>
    THEN /\ active' = active \ {i}
         /\ UNCHANGED <<queue, pageFetches>>
    ELSE /\ active' = (active \ {i}) \cup {Head(queue)}
         /\ queue' = Tail(queue)
         /\ pageFetches' = [pageFetches EXCEPT ![urls[Head(queue)]] = @ + 1]

\* lines 289-293: the catch of the task, or the error leaving it
Failed(i, message) ==
    IF TaskCatches
    THEN /\ rows' = Append(rows, [url |-> urls[i], error |-> message])
         /\ PLimitNext(i)
         /\ UNCHANGED <<pc, stack, fetching, exitCode, topError, failedAt>>
    ELSE /\ Exit(message, "")
         /\ UNCHANGED <<rows, queue, active, pageFetches>>

FetchErrors == {ErrTimeout, ErrStatus}
RunPages == {ArticlePage}

\* lines 285-288: the GET answers with a page, which is extracted
PageOk(i, page) ==
    /\ i \in active
    /\ exitCode = 0
    /\ rows' = Append(rows, extractPageData(page, urls[i]))
    /\ PLimitNext(i)
    /\ UNCHANGED <<env, extraction, output, pc, stack, fetching, urls, exitCode,
                   topError, failedAt, sitemapFetches>>

\* line 285 throws: network error, status outside [200,400), timeout
FetchFails(i, message) ==
    /\ i \in active
    /\ exitCode = 0
    /\ Failed(i, message)
    /\ UNCHANGED <<env, extraction, output, urls, sitemapFetches>>

\* line 286 throws: the body is no markup
ExtractFails(i) ==
    /\ i \in active
    /\ exitCode = 0
    /\ Failed(i, ErrExtract)
    /\ UNCHANGED <<env, extraction, output, urls, sitemapFetches>>

\* lines 297-304
Write ==
    /\ pc = "awaiting"
    /\ AllSettled(queue, active)
    /\ orderedRows' = OrderedRows(urls, rows)
    /\ written' = writeRecords(OrderedRows(urls, rows))
    /\ writeCount' = writeCount + 1
    /\ pc' = "done"
    /\ UNCHANGED <<env, extraction, tasks, stack, fetching, urls, exitCode,
                   topError, failedAt, sitemapFetches>>

TaskOk == \E i \in 1..Len(urls) : \E page \in RunPages : PageOk(i, page)

TaskFetchFails ==
    \E i \in 1..Len(urls) : \E message \in FetchErrors : FetchFails(i, message)

TaskExtractFails == \E i \in 1..Len(urls) : ExtractFails(i)

Resolve ==
    \/ StartSitemap
    \/ SitemapGetFails
    \/ SitemapUrlset
    \/ SitemapSitemapindex
    \/ SitemapUnknown

Next ==
    \/ NoSource
    \/ ReadFile
    \/ Resolve
    \/ PLimitThrows
    \/ Dispatch
    \/ TaskOk
    \/ TaskFetchFails
    \/ TaskExtractFails
    \/ Write

Spec == Init /\ [][Next]_vars

-----------------------------------------------------------------------------
(* Sitemap resolution alone, over every web of documents of at most
   MaxEntries entries *)

Documents(n) ==
    {Urlset(e) : e \in BoundedSeq({UrlA, UrlB}, n)}
        \cup {SitemapIndex(e) : e \in BoundedSeq(Sitemaps, n)}
        \cup {OtherDocument, Unreachable}

InitResolve ==
    /\ AtStart
    /\ CONCURRENCY = DefaultConcurrency
    /\ SITEMAP_URL = Root
    /\ URLS_FILE = NULL
    /\ fileLines = <<>>
    /\ web \in [Sitemaps -> Documents(MaxEntries)]

SpecResolve == InitResolve /\ [][Resolve]_vars

-----------------------------------------------------------------------------
(* extractPageData alone, over pages of at most MaxCandidates candidates *)

ExtractPages ==
    {[ImagePage EXCEPT !.tileItems = items] :
        items \in BoundedSeq(TileElements, MaxCandidates)}
        \cup {[BarePage EXCEPT !.tileChildren = items] :
                items \in BoundedSeq(TileElements, MaxCandidates)}
        \cup {ArticlePage}

InitExtract ==
    /\ Idle
    /\ CONCURRENCY = DefaultConcurrency
    /\ SITEMAP_URL = NULL
    /\ URLS_FILE = NULL
    /\ fileLines = <<>>
    /\ web = EmptyWeb
    /\ pc = "extract"
    /\ html \in ExtractPages
    /\ pageUrl \in {UrlA, UrlB}

\* line 286: data = extractPageData(html, url)
ExtractPage ==
    /\ pc = "extract"
    /\ data' = extractPageData(html, pageUrl)
    /\ pc' = "extracted"
    /\ UNCHANGED <<env, tasks, output, html, pageUrl, stack, fetching, urls,
                   exitCode, topError, failedAt, sitemapFetches>>

SpecExtract == InitExtract /\ [][ExtractPage]_vars

-----------------------------------------------------------------------------
(* Reference definitions used by the properties *)

\* The position of the first occurrence of x in s.
FirstIndex(s, x) == CHOOSE k \in 1..Len(s) : s[k] = x /\ \A m \in 1..(k-1) : s[m] # x

\* us lists each non-empty value of input once, in the order of first
\* occurrence.
IsFirstSeen(us, input) ==
    /\ \A i, j \in 1..Len(us) : i # j => us[i] # us[j]
    /\ {us[i] : i \in 1..Len(us)} = {input[k] : k \in 1..Len(input)} \ {""}
    /\ \A i, j \in 1..Len(us) :
          i < j => FirstIndex(input, us[i]) < FirstIndex(input, us[j])

RECURSIVE Concat(_)
Concat(ss) == IF ss = <<>> THEN <<>> ELSE Head(ss) \o Concat(Tail(ss))

\* The page URLs below sitemap s, children in document order, to a nesting
\* depth of `depth` documents.
RECURSIVE Flatten(_, _)
Flatten(s, depth) ==
    IF depth = 0 THEN <<>>
    ELSE IF web[s].root = "urlset" THEN SelectSeq(web[s].entries, LAMBDA x : x # "")
    ELSE IF web[s].root = "sitemapindex"
         THEN LET children == SelectSeq(web[s].entries, LAMBDA x : x # "")
              IN  Concat([k \in 1..Len(children) |-> Flatten(children[k], depth - 1)])
    ELSE <<>>

Depth == Cardinality(Sitemaps)

\* Some sitemap reached from s (s included) cannot be fetched or is neither
\* a urlset nor a sitemapindex.
RECURSIVE ReachesUnusable(_, _)
ReachesUnusable(s, depth) ==
    /\ depth > 0
    /\ \/ web[s].root \notin {"urlset", "sitemapindex"}
       \/ /\ web[s].root = "sitemapindex"
          /\ \E k \in 1..Len(web[s].entries) :
                /\ web[s].entries[k] # ""
                /\ ReachesUnusable(web[s].entries[k], depth - 1)

\* The list the run starts from, before de-duplication.
InputList ==
    IF SITEMAP_URL # NULL THEN Flatten(SITEMAP_URL, Depth)
    ELSE SelectSeq([i \in 1..Len(fileLines) |-> Trim(fileLines[i])],
                   LAMBDA l : l \in PageUrls)

TotalPageFetches == pageFetches[UrlA] + pageFetches[UrlB] + pageFetches[UrlC]

IsFailure(row) == "error" \in DOMAIN row

TaskErrors == FetchErrors \cup {ErrExtract}

-----------------------------------------------------------------------------
(* Properties *)

\* C1: in every run that reaches the write step, whatever the completion
\* order and whichever fetches failed, the rows handed to the writer are one
\* per de-duplicated input URL, the i-th row carrying the i-th URL of the
\* de-duplicated input list in first-seen order.
C1_RowsFollowInputOrder ==
    writeCount > 0 =>
        /\ IsFirstSeen(urls, InputList)
        /\ Len(orderedRows) = Len(urls)
        /\ \A i \in 1..Len(urls) : orderedRows[i].url = urls[i]

\* A run written after its tasks completed out of input order, one of them
\* failing.
C1_Witness ==
    /\ writeCount > 0
    /\ Len(urls) >= 3
    /\ rows[1].url = urls[3]
    /\ rows[2].url = urls[1]
    /\ IsFailure(rows[2])
    /\ ~IsFailure(rows[3])

\* C2: in every reachable state the tasks that have started their fetch and
\* have not settled are at most CONCURRENCY, counted in p-limit's active set
\* and as the GETs issued minus the rows pushed.
C2_InFlightWithinLimit ==
    /\ Cardinality(active) <= CONCURRENCY
    /\ exitCode = 0 => TotalPageFetches - Len(rows) = Cardinality(active)
    /\ TotalPageFetches <= Len(rows) + CONCURRENCY

\* The limit binds: of three URLs under a limit of two the third waited,
\* and started when the first task settled.
C2_Witness ==
    /\ CONCURRENCY = 2
    /\ Len(urls) = 3
    /\ Len(rows) = 1
    /\ active = {2, 3} \/ active = {1, 3}
    /\ queue = <<>>

\* C3: a failure of the fetch or of the extraction of one URL stays in that
\* URL's task: it never is the error main's catch takes, once the tasks are
\* dispatched the exit status stays 0, no task is left waiting when none
\* runs, and the run that is done has fetched every URL once, holds a row of
\* every URL and has written the file.
C3_FailureStaysInTask ==
    /\ topError \notin TaskErrors
    /\ pc \in {"awaiting", "done"} => exitCode = 0 /\ topError = ""
    /\ pc = "awaiting" /\ active = {} => queue = <<>>
    /\ pc = "done" =>
          /\ writeCount = 1
          /\ Len(written) = Len(urls)
          /\ \A i \in 1..Len(urls) :
                /\ pageFetches[urls[i]] = 1
                /\ \E k \in 1..Len(rows) : rows[k].url = urls[i]

\* A run in which every URL failed, by the fetch and by the extraction, ends
\* written with status 0.
C3_Witness ==
    /\ pc = "done"
    /\ exitCode = 0
    /\ Len(urls) >= 2
    /\ \A k \in 1..Len(rows) : IsFailure(rows[k])
    /\ \E k \in 1..Len(rows) : rows[k].error = ErrExtract
    /\ \E k \in 1..Len(rows) : rows[k].error = ErrTimeout

\* C4: for every URL whose fetch failed, the line written for that URL has
\* the URL, holds the error reason in one of its cells, and has every
\* content cell empty.
C4_DegradedRowWritten ==
    writeCount > 0 =>
        \A k \in 1..Len(rows) : \A i \in 1..Len(urls) :
            IsFailure(rows[k]) /\ rows[k].error \in FetchErrors /\ rows[k].url = urls[i] =>
                /\ written[i][1] = urls[i]
                /\ \E c \in 1..Len(written[i]) : written[i][c] = rows[k].error
                /\ \A c \in 1..Len(headers) :
                      headers[c] \notin {"url", "error"} => written[i][c] = ""

\* C5: the file is written at most once, exactly once in a run that is
\* done, and never while a task is queued or in flight: when it is written
\* every URL's row has been pushed.
C5_WrittenOnceAfterAllSettled ==
    /\ writeCount <= 1
    /\ pc = "done" => writeCount = 1
    /\ written # <<>> => writeCount = 1
    /\ writeCount > 0 =>
          /\ queue = <<>>
          /\ active = {}
          /\ Len(rows) = Len(urls)

\* A run of three URLs under a limit of one, written.
C5_Witness ==
    /\ writeCount = 1
    /\ CONCURRENCY = 1
    /\ Len(written) = 3
    /\ IsFailure(rows[2])

\* C6: with no source specifier the run ends with status 1 and no network
\* request is made; when a sitemap reached from the root, at any depth,
\* cannot be fetched or is of no recognized format, the run never gets past
\* the resolution other than by exiting with status 1; in both cases no page
\* GET is issued and nothing is written.
C6_FatalBeforeDispatch ==
    /\ SITEMAP_URL = NULL /\ URLS_FILE = NULL =>
          /\ pc \in {"start", "exited"}
          /\ pc = "exited" => topError = ErrNoSource /\ exitCode = 1
          /\ sitemapFetches = 0
          /\ TotalPageFetches = 0
          /\ writeCount = 0 /\ written = <<>>
    /\ SITEMAP_URL # NULL /\ ReachesUnusable(SITEMAP_URL, Depth) =>
          /\ pc \in {"start", "resolving", "exited"}
          /\ pc = "exited" => exitCode = 1
          /\ TotalPageFetches = 0
          /\ writeCount = 0 /\ written = <<>>
    /\ topError \in {ErrNoSource, ErrSitemapGet, ErrUnknownFormat} =>
          /\ pc = "exited" /\ exitCode = 1
          /\ TotalPageFetches = 0
          /\ rows = <<>>
          /\ writeCount = 0 /\ written = <<>>

\* A sitemap two levels below the root is of unknown format: the run exited
\* on it.
C6_Witness ==
    /\ topError = ErrUnknownFormat
    /\ failedAt = Sitemap3
    /\ sitemapFetches = 3
    /\ web[Root].root = "sitemapindex"
    /\ web[Sitemap2].root = "sitemapindex"
    /\ exitCode = 1

\* C7 as stated, on the webs whose urlset and sitemapindex documents all
\* list an entry: for every sitemap-of-sitemaps root the resolution, once it
\* is over, has returned, and the URL list is the de-duplicated
\* concatenation of the children's URLs in document order.
C7_ResolutionReturnsFlattened ==
    /\ web[Root].root = "sitemapindex"
    /\ \A s \in Sitemaps :
          web[s].root \in {"urlset", "sitemapindex"} => web[s].entries # <<>>
    /\ pc \notin {"start", "resolving"}
    => /\ pc = "resolved"
       /\ IsFirstSeen(urls, Flatten(Root, Depth))

\* C7 amended: for every sitemap-of-sitemaps root on which the resolution
\* returns, the URL list is the concatenation of the children's URLs in
\* document order, each child resolved recursively, de-duplicated keeping
\* the first occurrence; when it ends with an error instead, a sitemap it
\* reached could not be fetched, was of no recognized format, or listed no
\* entry.
C7_ReturnedListIsFlattened ==
    web[Root].root = "sitemapindex" =>
        /\ pc = "resolved" => IsFirstSeen(urls, Flatten(Root, Depth))
        /\ pc = "exited" =>
              /\ failedAt \in Sitemaps
              /\ \/ web[failedAt].root \notin {"urlset", "sitemapindex"}
                 \/ web[failedAt].entries = <<>>

\* A root index whose first child is an index again: the children's lists
\* overlap and come back in document order.
C7_Witness ==
    /\ pc = "resolved"
    /\ web[Root] = SitemapIndex(<<Sitemap2, Sitemap3>>)
    /\ web[Sitemap2] = SitemapIndex(<<Sitemap3, Sitemap3>>)
    /\ web[Sitemap3] = Urlset(<<UrlB, UrlA>>)
    /\ urls = <<UrlB, UrlA>>
    /\ sitemapFetches = 5

\* C8: the resolution raises the unknown-format error only on a document
\* that is neither a urlset nor a sitemapindex, whatever the number of
\* entries a document of either shape lists.
C8_UnknownFormatOnlyIfUnrecognized ==
    topError = ErrUnknownFormat =>
        web[failedAt].root \notin {"urlset", "sitemapindex"}

\* C9: every URL is fetched at most once, a failed one included; a run that
\* is done has fetched each URL of the input once and written one line for
\* it; the list a, a, b gives two GETs and the lines of a and b in that
\* order.
C9_EachUrlFetchedOnce ==
    /\ \A u \in PageUrls : pageFetches[u] <= 1
    /\ pc = "done" =>
          /\ \A u \in PageUrls :
                pageFetches[u] =
                    IF \E k \in 1..Len(InputList) : InputList[k] = u THEN 1 ELSE 0
          /\ Len(written) = Cardinality({InputList[k] : k \in 1..Len(InputList)})
          /\ Len(rows) = Len(written)
    /\ pc = "done" /\ fileLines = <<UrlA, UrlA, UrlB>> /\ SITEMAP_URL = NULL =>
          /\ TotalPageFetches = 2
          /\ Len(written) = 2
          /\ written[1][1] = UrlA
          /\ written[2][1] = UrlB

\* The list a, padded a, b, with the one fetch of a failing.
C9_Witness ==
    /\ pc = "done"
    /\ fileLines = <<UrlA, PaddedA, UrlB>>
    /\ Len(rows) = 2
    /\ rows[2].url = UrlA
    /\ IsFailure(rows[2])
    /\ pageFetches[UrlA] = 1

\* C10: the extraction gives three tile slots: the candidates taken in
\* document order, those with heading, description, link title and link URL
\* all empty left out, the first three of the others fill slots 1 to 3 in
\* that order, and a slot with no candidate holds four empty strings.
C10_ThreeTileSlots ==
    pc = "extracted" =>
        LET candidates == IF html.tileItems # <<>> THEN html.tileItems
                          ELSE html.tileChildren
            fields == [i \in 1..Len(candidates) |-> TileFields(candidates[i], pageUrl)]
            kept == SelectSeq(fields, LAMBDA t : t # EmptyTile)
            slot(k) == IF k <= Len(kept) THEN kept[k] ELSE EmptyTile
        IN  /\ {"tile1_heading", "tile2_heading", "tile3_heading"} \subseteq DOMAIN data
            /\ <<data.tile1_heading, data.tile1_description,
                 data.tile1_link_title, data.tile1_link_url>>
                 = <<slot(1).heading, slot(1).description,
                     slot(1).linkTitle, slot(1).linkUrl>>
            /\ <<data.tile2_heading, data.tile2_description,
                 data.tile2_link_title, data.tile2_link_url>>
                 = <<slot(2).heading, slot(2).description,
                     slot(2).linkTitle, slot(2).linkUrl>>
            /\ <<data.tile3_heading, data.tile3_description,
                 data.tile3_link_title, data.tile3_link_url>>
                 = <<slot(3).heading, slot(3).description,
                     slot(3).linkTitle, slot(3).linkUrl>>

\* A page of six candidates: two empty ones are left out, the fourth
\* non-empty one is ignored.
C10_Witness ==
    /\ pc = "extracted"
    /\ html = ArticlePage
    /\ data.tile1_heading = "One"
    /\ data.tile2_link_title = "Read more"
    /\ data.tile2_link_url = "https://site.com/r"
    /\ data.tile3_heading = "Four"

====
